---- MODULE Spec2Model ----
(***************************************************************************)
(* The lockbox datastore: an encrypted item store (DataStore) over a      *)
(* local database (items and keystores tables), its item keystore and     *)
(* the state gate of its operations.                                       *)
(*                                                                         *)
(* Every DataStore method is an operator from a world record              *)
(*   w = [keystore, ldb, items, keystores, uuid]                           *)
(* and the call's arguments to a result record                            *)
(*   [w, err, res, ev]                                                     *)
(* (the world after the call, the error thrown or NoError, the value      *)
(* returned, the events handed to recordMetric).  One action per method   *)
(* applies the operator to the current state.                              *)
(***************************************************************************)
EXTENDS Integers, Sequences, FiniteSets, TLC

VARIABLES
  keystore,     \* self.keystore: the instance's ItemKeyStore
  ldb,          \* self.ldb is set (the database handle is open)
  dbItems,      \* the bucket's items table: id -> [id, active, encrypted]
  dbKeystores,  \* the bucket's keystores table, the record of group ""
  uuid,         \* how many UUID() values have been drawn
  last,         \* the last call: its name, arguments, state before, outcome
  other,        \* a second instance on the same bucket: its keystore and ldb
  pending       \* the call in flight (started and not yet returned), if any

vars == <<keystore, ldb, dbItems, dbKeystores, uuid, last, other, pending>>

(***************************************************************************)
(* Bounds and input sets                                                   *)
(***************************************************************************)
\* UUID() draws the model allows (ids are 1..MaxItems, never reused).
MaxItems == 2

Ids == 1 .. MaxItems
\* item.id of a caller's item that has none
NoId == 0
\* undefined, for a string-valued argument
Undefined == "undefined"
\* null / undefined, for an object-valued slot
Null == [null |-> TRUE]
\* what a method returns for `this`
This == [self |-> TRUE]

Passwords == {Undefined, "", "pw1", "pw2"}
Titles == {"My Item", "MY Item"}
LoginPasswords == {"bar"}
Times == {"t0", "t1"}

(***************************************************************************)
(* Errors                                                                  *)
(***************************************************************************)
NoError == "ok"
NOT_INITIALIZED == "NOT_INITIALIZED"
INITIALIZED == "INITIALIZED"
LOCKED == "LOCKED"
MISSING_APP_KEY == "MISSING_APP_KEY"
INVALID_ITEM == "INVALID_ITEM"
MISSING_ITEM == "MISSING_ITEM"
INVALID_MASTER_KEY == "invalid master key"
NOT_ENCRYPTED == "not encrypted"
UNKNOWN_KEY == "unknown item key"
AUTH_TAG_MISMATCH == "auth tag mismatch"
\* new TypeError("expected item"), new TypeError("invalid item")
TYPE_ERROR_EXPECTED_ITEM == "TypeError: expected item"
TYPE_ERROR_INVALID_ITEM == "TypeError: invalid item"
\* new Error("item does not exist")
ERROR_ITEM_DOES_NOT_EXIST == "Error: item does not exist"
\* a property of self.ldb read while self.ldb is undefined
TYPE_ERROR_NO_LDB == "TypeError: self.ldb is undefined"

\* a write or commit of the database that fails
STORAGE_FAILURE == "storage failure"
\* what a recordMetric function throws
SINK_ERROR == "sink error"

(***************************************************************************)
(* Maps (JS objects and tables keyed by id)                                *)
(***************************************************************************)
EmptyMap == [x \in {} |-> Null]

MapPut(m, k, v) == [x \in (DOMAIN m) \cup {k} |-> IF x = k THEN v ELSE m[x]]

MapDelete(m, k) == [x \in (DOMAIN m) \ {k} |-> m[x]]

(***************************************************************************)
(* Master keys and the wrapped keyring (itemkeystore.js, node-jose)        *)
(***************************************************************************)
\* BASE64URL(SHA-256("project lockbox"))
PASSWORD_PREFIX == "-GV3ItzyNxfBGp3ZjtqVGswWWlT7tIMZjeXanHqhxm0"

\* pwd || ""
OrEmpty(pwd) == IF pwd = Undefined THEN "" ELSE pwd

\* The octet key whose bytes are PASSWORD_PREFIX + (pwd || "").
passwordToKey(pwd) ==
  [kty |-> "oct", k |-> PASSWORD_PREFIX \o OrEmpty(pwd), use |-> "enc"]

DEFAULT_ITERATIONS == 8192
\* the salt a keystore generates when it is given none
GENERATED_SALT == "generated-salt"
\* opts.salt of initialize: the callers modelled give none
Salts == {Undefined}

\* The compact JWE of the key map under masterKey: only the holder of the
\* same key opens it (the nonce of each wrapping is not modelled).
wrap(masterKey, salt, iterations, keys) ==
  [p2s |-> salt, p2c |-> iterations, key |-> masterKey.k, keys |-> keys]

\* Whether masterKey opens the blob.
unwraps(masterKey, blob) == masterKey # Null /\ blob.key = masterKey.k

\* new ItemKeyStore({group, salt, iterations, encrypted, masterKey})
ItemKeyStore(salt, encrypted, masterKey) ==
  [group |-> "",
   salt |-> IF salt = Undefined THEN GENERATED_SALT ELSE salt,
   iterations |-> DEFAULT_ITERATIONS,
   encrypted |-> encrypted,
   masterKey |-> masterKey,
   keys |-> EmptyMap]

toJSON(ks) ==
  [group |-> ks.group, salt |-> ks.salt, iterations |-> ks.iterations,
   encrypted |-> ks.encrypted]

\* new ItemKeyStore(json) for a record of the keystores table
fromJSON(json) ==
  [group |-> json.group, salt |-> json.salt, iterations |-> json.iterations,
   encrypted |-> json.encrypted, masterKey |-> Null, keys |-> EmptyMap]

\* load that takes the master key it is given before it looks at the
\* encrypted key map
loadTakesKeyFirst(ks, masterKey) ==
  LET mk == IF masterKey # Null THEN masterKey ELSE ks.masterKey
      taken == [ks EXCEPT !.masterKey = mk]
  IN IF ks.encrypted = Null THEN [ks |-> taken, err |-> NOT_ENCRYPTED]
     ELSE IF ~unwraps(mk, ks.encrypted) THEN [ks |-> taken, err |-> INVALID_MASTER_KEY]
     ELSE [ks |-> [taken EXCEPT !.keys = ks.encrypted.keys], err |-> NoError]

\* keystore.load(masterKey): [ks, err]
load(ks, masterKey) ==
  LET mk == IF masterKey # Null THEN masterKey ELSE ks.masterKey IN
  IF ks.encrypted = Null THEN [ks |-> ks, err |-> NOT_ENCRYPTED]
  ELSE IF ~unwraps(mk, ks.encrypted) THEN [ks |-> ks, err |-> INVALID_MASTER_KEY]
  ELSE [ks |-> [ks EXCEPT !.keys = ks.encrypted.keys, !.masterKey = mk],
        err |-> NoError]

\* keystore.save(): [ks, err]
save(ks) ==
  IF ks.masterKey = Null THEN [ks |-> ks, err |-> INVALID_MASTER_KEY]
  ELSE [ks |-> [ks EXCEPT !.encrypted =
                  wrap(ks.masterKey, ks.salt, ks.iterations, ks.keys)],
        err |-> NoError]

\* keystore.clear(hard)
clear(ks, hard) ==
  [ks EXCEPT !.keys = EmptyMap, !.masterKey = Null,
             !.encrypted = IF hard THEN Null ELSE @]

\* The key generated for id: a fresh random A256GCM key.  An id has a key
\* generated at most once (UUIDs are not drawn twice), so the id names the draw.
NewItemKey(id) == [kty |-> "oct", kid |-> id, alg |-> "A256GCM", k |-> <<"random", id>>]

\* keystore.add(id): the keystore holding a key for id
keystoreAdd(ks, id) ==
  IF id \in DOMAIN ks.keys THEN ks
  ELSE [ks EXCEPT !.keys = MapPut(@, id, NewItemKey(id))]

\* keystore.delete(id)
keystoreDelete(ks, id) == [ks EXCEPT !.keys = MapDelete(@, id)]

\* keystore.encrypt(item): [ks, encrypted]; the item's JSON under the key of
\* item.id (added when missing), bound to the id.
encrypt(ks, item) ==
  LET ks2 == keystoreAdd(ks, item.id) IN
  [ks |-> ks2,
   encrypted |-> [key |-> ks2.keys[item.id].k, aad |-> item.id, pt |-> item]]

\* keystore.decrypt(id, encrypted): [item, err]
decrypt(ks, id, encrypted) ==
  IF id \notin DOMAIN ks.keys THEN [item |-> Null, err |-> UNKNOWN_KEY]
  ELSE IF encrypted.key # ks.keys[id].k \/ encrypted.aad # id
    THEN [item |-> Null, err |-> AUTH_TAG_MISMATCH]
  ELSE [item |-> encrypted.pt, err |-> NoError]

\* test/setup/encrypted-empty.json: an empty key map wrapped under the
\* tests' master secret.
FIXTURE_PASSWORD == "pw1"

EncryptedEmpty ==
  wrap(passwordToKey(FIXTURE_PASSWORD), "fixture-salt", DEFAULT_ITERATIONS, EmptyMap)

(***************************************************************************)
(* Items (items.js): a JS object is a function from the names of the       *)
(* properties it has to their values.                                      *)
(***************************************************************************)
Has(obj, f) == f \in DOMAIN obj

\* obj[f] of a string-valued property, undefined when the object has none
Prop(obj, f) == IF Has(obj, f) THEN obj[f] ELSE Undefined

\* Object.assign({}, a, b)
Assign(a, b) ==
  [f \in (DOMAIN a) \cup (DOMAIN b) |-> IF f \in DOMAIN b THEN b[f] ELSE a[f]]

\* the members of an array
Elems(seq) == {seq[i] : i \in DOMAIN seq}

RECURSIVE Dedupe(_)
\* the array without the repeats of a member (the first of each stays)
Dedupe(seq) ==
  IF seq = <<>> THEN <<>>
  ELSE LET front == Dedupe(SubSeq(seq, 1, Len(seq) - 1))
           x == seq[Len(seq)]
       IN IF x \in Elems(front) THEN front ELSE Append(front, x)

KnownKinds == {"login"}

\* how many history records an item keeps
HISTORY_MAX == 8

\* a patch generator that sets the members to differs in and leaves alone
\* the members only from has
MergePatchGenerateNoNull(from, to) ==
  LET changed == {k \in DOMAIN to : k \notin DOMAIN from \/ from[k] # to[k]}
  IN [k \in changed |-> [value |-> to[k]]]

\* jsonmergepatch.generate(from, to): the merge patch that turns from into
\* to; a member of to that from lacks or holds otherwise is set, a member
\* only from has is null.
MergePatchGenerate(from, to) ==
  LET changed == {k \in DOMAIN to : k \notin DOMAIN from \/ from[k] # to[k]}
      dropped == DOMAIN from \ DOMAIN to
  IN [k \in changed \cup dropped |->
        IF k \in changed THEN [value |-> to[k]] ELSE Null]

\* jsonmergepatch.apply(doc, patch)
MergePatchApply(doc, patch) ==
  LET dropped == {k \in DOMAIN patch : patch[k] = Null} IN
  [k \in (DOMAIN doc \cup DOMAIN patch) \ dropped |->
     IF k \in DOMAIN patch THEN patch[k].value ELSE doc[k]]

\* the first n elements of seq
Truncate(seq, n) == SubSeq(seq, 1, IF Len(seq) < n THEN Len(seq) ELSE n)

\* Items.prepare(item) and Items.prepare(item, source): [item, err].  A new
\* item gets the id drawn for it; an updated one keeps the stored id and
\* last_used, and gets a history record when its entry changes.  created and
\* modified, which no DataStore method reads, are not carried, nor is the
\* time of a history record.
ItemsPrepare(item, source, id, now) ==
  IF ~Has(item, "entry") \/ ~Has(item.entry, "kind")
     \/ item.entry.kind \notin KnownKinds
    THEN [item |-> Null, err |-> INVALID_ITEM]
  ELSE
    [item |->
       [id |-> id,
        title |-> IF Has(item, "title") THEN item.title ELSE "",
        origins |-> IF Has(item, "origins") THEN Dedupe(item.origins) ELSE <<>>,
        entry |-> item.entry,
        disabled |-> IF Has(item, "disabled") THEN item.disabled ELSE FALSE,
        last_used |-> IF source = Null THEN now ELSE source.last_used,
        history |->
          IF source = Null THEN <<>>
          ELSE IF item.entry = source.entry THEN source.history
          ELSE Truncate(<<[patch |-> MergePatchGenerate(item.entry, source.entry)]>>
                          \o source.history,
                        HISTORY_MAX)],
     err |-> NoError]

RECURSIVE JoinComma(_)
\* fields.join(",")
JoinComma(fields) ==
  IF fields = <<>> THEN ""
  ELSE IF Len(fields) = 1 THEN fields[1]
  ELSE fields[1] \o "," \o JoinComma(Tail(fields))

\* determineItemChanges that compares the two origins arrays member by
\* member, in order.
determineItemChangesInOrder(prev, next0) ==
  LET next == Assign(prev, next0)
      prevOrigins == IF Has(prev, "origins") THEN prev.origins ELSE <<>>
      nextOrigins == IF Has(next, "origins") THEN next.origins ELSE <<>>
      prevEntry == IF Has(prev, "entry") THEN prev.entry ELSE EmptyMap
      nextEntry == IF Has(next, "entry") THEN next.entry ELSE EmptyMap
      title == IF Prop(prev, "title") # Prop(next, "title") THEN <<"title">> ELSE <<>>
      origins == IF prevOrigins # nextOrigins THEN <<"origins">> ELSE <<>>
      entry(f) ==
        IF Prop(prevEntry, f) # Prop(nextEntry, f) THEN <<"entry." \o f>> ELSE <<>>
  IN JoinComma(title \o origins \o entry("username") \o entry("password")
               \o entry("notes"))

\* determineItemChanges(prev, next).fields
determineItemChanges(prev, next0) ==
  LET next == Assign(prev, next0)
      prevOrigins == IF Has(prev, "origins") THEN prev.origins ELSE <<>>
      nextOrigins == IF Has(next, "origins") THEN next.origins ELSE <<>>
      prevEntry == IF Has(prev, "entry") THEN prev.entry ELSE EmptyMap
      nextEntry == IF Has(next, "entry") THEN next.entry ELSE EmptyMap
      title == IF Prop(prev, "title") # Prop(next, "title") THEN <<"title">> ELSE <<>>
      origins ==
        IF Len(prevOrigins) # Len(nextOrigins)
           \/ ~(\A i \in DOMAIN prevOrigins : prevOrigins[i] \in Elems(nextOrigins))
        THEN <<"origins">> ELSE <<>>
      entry(f) ==
        IF Prop(prevEntry, f) # Prop(nextEntry, f) THEN <<"entry." \o f>> ELSE <<>>
  IN JoinComma(title \o origins \o entry("username") \o entry("password")
               \o entry("notes"))

(***************************************************************************)
(* DataStore (datastore.js)                                                *)
(***************************************************************************)
\* the state the methods act on
World ==
  [keystore |-> keystore, ldb |-> ldb, items |-> dbItems,
   keystores |-> dbKeystores, uuid |-> uuid,
   fault |-> "none", sink |-> "resolves"]

\* What the database does to the next write of a call (w.fault): nothing,
\* or it fails the write to the items table, the write to the keystores
\* table, or the commit.
NoFault == "none"

Faults == {NoFault, "items", "keystores", "commit"}

\* What cfg.recordMetric does when called (w.sink): it resolves, it returns
\* a promise that rejects, or it throws.
Sinks == {"resolves", "rejects", "throws"}

\* the world a call runs in when the database and the sink behave so
Env(w, fault, sink) == [w EXCEPT !.fault = fault, !.sink = sink]

\* what a call leaves behind
Result(w, err, res, ev) == [w |-> w, err |-> err, res |-> res, ev |-> ev]

Throw(w, err) == Result(w, err, Null, <<>>)

\* one call of self.recordMetric(method, id, fields)
Metric(method, id, fields) == [method |-> method, id |-> id, fields |-> fields]

\* self.recordMetric(...) as the last statement before `return`: the call
\* is not awaited and not guarded, so a promise that rejects is dropped and
\* an exception leaves the method.
Recorded(r) ==
  IF r.w.sink = "throws" THEN [r EXCEPT !.err = SINK_ERROR, !.res = Null] ELSE r

\* a put that resolves without writing the record
itemsPutNowhere(w, id, record) == [w |-> w, err |-> NoError]

\* await ldb.items.put(record): a write in a transaction of its own
itemsPut(w, id, record) ==
  IF w.fault \in {"items", "commit"} THEN [w |-> w, err |-> STORAGE_FAILURE]
  ELSE [w |-> [w EXCEPT !.items = MapPut(@, id, record)], err |-> NoError]

\* The two tables written one after the other, each write committed by
\* itself.
writeEachTable(w, items, keystores) ==
  IF w.fault \in {"items", "commit"} THEN [w |-> w, err |-> STORAGE_FAILURE]
  ELSE IF w.fault = "keystores"
    THEN [w |-> [w EXCEPT !.items = items], err |-> STORAGE_FAILURE]
  ELSE [w |-> [w EXCEPT !.items = items, !.keystores = keystores],
        err |-> NoError]

\* await ldb.transaction("rw", ldb.items, ldb.keystores, () => {...}): the
\* writes to the two tables are committed together or not at all.
transaction(w, items, keystores) ==
  IF w.fault # NoFault THEN [w |-> w, err |-> STORAGE_FAILURE]
  ELSE [w |-> [w EXCEPT !.items = items, !.keystores = keystores],
        err |-> NoError]

\* get initialized()
initialized(w) == w.keystore.encrypted # Null

\* get locked()
locked(w) == w.keystore.masterKey = Null

\* checkState without its second test: a locked vault passes.
checkStateIgnoresLock(w) ==
  IF ~initialized(w) THEN NOT_INITIALIZED ELSE NoError

\* checkState with its two tests in the other order.
checkStateLockedFirst(w) ==
  IF locked(w) THEN LOCKED
  ELSE IF ~initialized(w) THEN NOT_INITIALIZED
  ELSE NoError

\* checkState(ds): the error it throws, or NoError
checkState(w) ==
  IF ~initialized(w) THEN NOT_INITIALIZED
  ELSE IF locked(w) THEN LOCKED
  ELSE NoError

\* new DataStore(cfg): the instance replaces the one in memory; the bucket
\* is the database's and stays.
constructor(w, keys) ==
  [w EXCEPT !.keystore = ItemKeyStore(Undefined, keys, Null), !.ldb = FALSE]

\* prepare without the test for an open database: it loads the stored
\* keystore again on every call.
prepareAlways(w) ==
  LET json == IF w.keystores # Null THEN w.keystores
              ELSE toJSON(w.keystore)
  IN Result([w EXCEPT !.ldb = TRUE, !.keystore = fromJSON(json)],
            NoError, This, <<>>)

\* prepare()
prepare(w) ==
  IF ~w.ldb
    THEN LET json == IF w.keystores # Null THEN w.keystores
                     ELSE toJSON(w.keystore)
         IN Result([w EXCEPT !.ldb = TRUE, !.keystore = fromJSON(json)],
                   NoError, This, <<>>)
    ELSE Result(w, NoError, This, <<>>)

\* initialize that saves the new keystore in memory and never puts it into
\* the keystores table.
initializeWithoutPut(w, opts) ==
  LET p == prepare(w).w IN
  IF p.keystore.encrypted # Null THEN Throw(p, INITIALIZED)
  ELSE
    LET masterKey == passwordToKey(OrEmpty(opts.password))
        saved == save(ItemKeyStore(opts.salt, Null, masterKey))
    IN IF saved.err # NoError THEN Throw(p, saved.err)
       ELSE Result([p EXCEPT !.keystore = saved.ks], NoError, This, <<>>)

\* initialize without the test for an existing encrypted key map: it sets a
\* vault up anew over the one that is there.
initializeOverExisting(w, opts) ==
  LET p == prepare(w).w
      masterKey == passwordToKey(OrEmpty(opts.password))
      saved == save(ItemKeyStore(opts.salt, Null, masterKey))
  IN IF saved.err # NoError THEN Throw(p, saved.err)
     ELSE Result([p EXCEPT !.keystore = saved.ks,
                           !.keystores = toJSON(saved.ks)],
                 NoError, This, <<>>)

\* initialize(opts)
initialize(w, opts) ==
  LET p == prepare(w).w IN
  IF p.keystore.encrypted # Null THEN Throw(p, INITIALIZED)
  ELSE
    LET masterKey == passwordToKey(OrEmpty(opts.password))
        saved == save(ItemKeyStore(opts.salt, Null, masterKey))
    IN IF saved.err # NoError THEN Throw(p, saved.err)
       ELSE Result([p EXCEPT !.keystore = saved.ks,
                             !.keystores = toJSON(saved.ks)],
                   NoError, This, <<>>)

\* reset that drops the tables and the encrypted key map and keeps the
\* master key in memory
resetKeepsMaster(w) ==
  IF initialized(w)
    THEN IF ~w.ldb THEN Throw(w, TYPE_ERROR_NO_LDB)
         ELSE Result([w EXCEPT !.items = EmptyMap, !.keystores = Null,
                               !.keystore.encrypted = Null,
                               !.keystore.keys = EmptyMap, !.ldb = FALSE],
                     NoError, This, <<>>)
    ELSE Result(w, NoError, This, <<>>)

\* reset()
reset(w) ==
  IF initialized(w)
    THEN IF ~w.ldb THEN Throw(w, TYPE_ERROR_NO_LDB)
         ELSE Result([w EXCEPT !.items = EmptyMap, !.keystores = Null,
                               !.keystore = clear(@, TRUE), !.ldb = FALSE],
                     NoError, This, <<>>)
    ELSE Result(w, NoError, This, <<>>)

\* lock that clears the keystore hard, dropping the encrypted key map too.
lockHard(w) == Result([w EXCEPT !.keystore = clear(@, TRUE)], NoError, This, <<>>)

\* lock that drops the master key and keeps the decrypted item keys.
lockKeepsKeys(w) ==
  Result([w EXCEPT !.keystore.masterKey = Null], NoError, This, <<>>)

\* lock()
lock(w) == Result([w EXCEPT !.keystore = clear(@, FALSE)], NoError, This, <<>>)

\* unlock that keeps the key made from pwd whether or not it opens the
\* encrypted key map.
unlockKeepsKey(w, pwd) ==
  IF ~locked(w) THEN Result(w, NoError, This, <<>>)
  ELSE
    LET masterKey == passwordToKey(pwd)
        loaded == load(w.keystore, masterKey)
    IN IF loaded.err # NoError
         THEN Throw([w EXCEPT !.keystore.masterKey = masterKey], loaded.err)
       ELSE Result([w EXCEPT !.keystore = loaded.ks], NoError, This, <<>>)

\* unlock without the early return for an unlocked vault: it loads the key
\* map under pwd every time.
unlockAlwaysLoads(w, pwd) ==
  LET loaded == load(w.keystore, passwordToKey(pwd)) IN
  IF loaded.err # NoError THEN Throw(w, loaded.err)
  ELSE Result([w EXCEPT !.keystore = loaded.ks], NoError, This, <<>>)

\* unlock(pwd)
unlock(w, pwd) ==
  IF ~locked(w) THEN Result(w, NoError, This, <<>>)
  ELSE
    LET loaded == load(w.keystore, passwordToKey(pwd)) IN
    IF loaded.err # NoError THEN Throw(w, loaded.err)
    ELSE Result([w EXCEPT !.keystore = loaded.ks], NoError, This, <<>>)

\* the smallest member of a non-empty set of ids
MinId(S) == CHOOSE x \in S : \A y \in S : x <= y

\* list that leaves out the records it cannot decrypt
listSkipsFailures(w) ==
  LET state == checkState(w) IN
  IF state # NoError THEN Throw(w, state)
  ELSE IF ~w.ldb THEN Throw(w, TYPE_ERROR_NO_LDB)
  ELSE
    LET all == [id \in DOMAIN w.items |->
                  decrypt(w.keystore, id, w.items[id].encrypted)]
        opened == {id \in DOMAIN all : all[id].err = NoError}
    IN Result(w, NoError, [id \in opened |-> all[id].item], <<>>)

\* get that decrypts a record under the id its ciphertext names, not the id
\* it was asked for
getUnderBoundId(w, id) ==
  LET state == checkState(w) IN
  IF state # NoError THEN Throw(w, state)
  ELSE IF ~w.ldb THEN Throw(w, TYPE_ERROR_NO_LDB)
  ELSE IF id \notin DOMAIN w.items THEN Result(w, NoError, Null, <<>>)
  ELSE
    LET one == decrypt(w.keystore, w.items[id].encrypted.aad, w.items[id].encrypted) IN
    IF one.err # NoError THEN Throw(w, one.err)
    ELSE Result(w, NoError, one.item, <<>>)

\* list()
list(w) ==
  LET state == checkState(w) IN
  IF state # NoError THEN Throw(w, state)
  ELSE IF ~w.ldb THEN Throw(w, TYPE_ERROR_NO_LDB)
  ELSE
    LET all == [id \in DOMAIN w.items |->
                  decrypt(w.keystore, id, w.items[id].encrypted)]
        failed == {id \in DOMAIN all : all[id].err # NoError}
    IN IF failed # {} THEN Throw(w, all[MinId(failed)].err)
       ELSE Result(w, NoError, [id \in DOMAIN all |-> all[id].item], <<>>)

\* get(id)
get(w, id) ==
  LET state == checkState(w) IN
  IF state # NoError THEN Throw(w, state)
  ELSE IF ~w.ldb THEN Throw(w, TYPE_ERROR_NO_LDB)
  ELSE IF id \notin DOMAIN w.items THEN Result(w, NoError, Null, <<>>)
  ELSE
    LET one == decrypt(w.keystore, id, w.items[id].encrypted) IN
    IF one.err # NoError THEN Throw(w, one.err)
    ELSE Result(w, NoError, one.item, <<>>)

\* the record of the items table for an item and its ciphertext
ItemRecord(item, encrypted) ==
  [id |-> item.id, active |-> IF ~item.disabled THEN "active" ELSE "",
   encrypted |-> encrypted]

\* add that keeps the id the caller's item came with (a new one is drawn
\* only for an item without id) and puts the record under it.
addKeepsCallerId(w, item, now) ==
  LET state == checkState(w) IN
  IF state # NoError THEN Throw(w, state)
  ELSE IF item = Null THEN Throw(w, TYPE_ERROR_EXPECTED_ITEM)
  ELSE
    LET id == IF Has(item, "id") THEN item.id ELSE w.uuid + 1
        prepared == ItemsPrepare(item, Null, id, now)
    IN
    IF prepared.err # NoError THEN Throw(w, prepared.err)
    ELSE
      LET enc == encrypt(w.keystore, prepared.item)
          saved == save(enc.ks)
          w1 == [w EXCEPT !.uuid = @ + 1, !.keystore = saved.ks]
      IN IF saved.err # NoError THEN Throw([w1 EXCEPT !.keystore = enc.ks], saved.err)
         ELSE IF ~w.ldb THEN Throw(w1, TYPE_ERROR_NO_LDB)
         ELSE Result([w1 EXCEPT
                        !.items = MapPut(@, prepared.item.id,
                                         ItemRecord(prepared.item, enc.encrypted)),
                        !.keystores = toJSON(saved.ks)],
                     NoError, prepared.item,
                     <<Metric("added", prepared.item.id, Undefined)>>)

\* add that stores the item and never calls recordMetric.
addWithoutMetric(w, item, now) ==
  LET state == checkState(w) IN
  IF state # NoError THEN Throw(w, state)
  ELSE IF item = Null THEN Throw(w, TYPE_ERROR_EXPECTED_ITEM)
  ELSE
    LET prepared == ItemsPrepare(item, Null, w.uuid + 1, now) IN
    IF prepared.err # NoError THEN Throw(w, prepared.err)
    ELSE
      LET enc == encrypt(w.keystore, prepared.item)
          saved == save(enc.ks)
          w1 == [w EXCEPT !.uuid = @ + 1, !.keystore = saved.ks]
      IN IF saved.err # NoError THEN Throw([w1 EXCEPT !.keystore = enc.ks], saved.err)
         ELSE IF ~w.ldb THEN Throw(w1, TYPE_ERROR_NO_LDB)
         ELSE Result([w1 EXCEPT
                        !.items = MapPut(@, prepared.item.id,
                                         ItemRecord(prepared.item, enc.encrypted)),
                        !.keystores = toJSON(saved.ks)],
                     NoError, prepared.item, <<>>)

\* add(item)
add(w, item, now) ==
  LET state == checkState(w) IN
  IF state # NoError THEN Throw(w, state)
  ELSE IF item = Null THEN Throw(w, TYPE_ERROR_EXPECTED_ITEM)
  ELSE
    LET prepared == ItemsPrepare(item, Null, w.uuid + 1, now) IN
    IF prepared.err # NoError THEN Throw(w, prepared.err)
    ELSE
      LET enc == encrypt(w.keystore, prepared.item)
          saved == save(enc.ks)
          w1 == [w EXCEPT !.uuid = @ + 1, !.keystore = saved.ks]
      IN IF saved.err # NoError THEN Throw([w1 EXCEPT !.keystore = enc.ks], saved.err)
         ELSE IF ~w.ldb THEN Throw(w1, TYPE_ERROR_NO_LDB)
         ELSE
           LET tx == transaction(w1,
                       MapPut(w1.items, prepared.item.id,
                              ItemRecord(prepared.item, enc.encrypted)),
                       toJSON(saved.ks))
           IN IF tx.err # NoError THEN Throw(tx.w, tx.err)
              ELSE Recorded(Result(tx.w, NoError, prepared.item,
                              <<Metric("added", prepared.item.id, Undefined)>>))

\* update that generates a new key for the item instead of using the one the
\* keystore holds for its id.
updateRekeys(w, item) ==
  LET state == checkState(w) IN
  IF state # NoError THEN Throw(w, state)
  ELSE IF item = Null \/ ~Has(item, "id") \/ item.id = NoId
    THEN Throw(w, TYPE_ERROR_INVALID_ITEM)
  ELSE IF ~w.ldb THEN Throw(w, TYPE_ERROR_NO_LDB)
  ELSE IF item.id \notin DOMAIN w.items THEN Throw(w, ERROR_ITEM_DOES_NOT_EXIST)
  ELSE
    LET orig == decrypt(w.keystore, item.id, w.items[item.id].encrypted) IN
    IF orig.err # NoError THEN Throw(w, orig.err)
    ELSE
      LET prepared == ItemsPrepare(item, orig.item, item.id, orig.item.last_used) IN
      IF prepared.err # NoError THEN Throw(w, prepared.err)
      ELSE
        LET fields == determineItemChanges(orig.item, prepared.item)
            rekeyed == [w.keystore EXCEPT !.keys =
                         MapPut(@, item.id,
                                [NewItemKey(item.id) EXCEPT
                                   !.k = <<"random", item.id, "again">>])]
            enc == encrypt(rekeyed, prepared.item)
            w1 == [w EXCEPT !.keystore = enc.ks]
            put == itemsPut(w1, item.id, ItemRecord(prepared.item, enc.encrypted))
        IN IF put.err # NoError THEN Throw(put.w, put.err)
           ELSE Recorded(Result(put.w, NoError, prepared.item,
                           <<Metric("updated", prepared.item.id, fields)>>))

\* update(item)
update(w, item) ==
  LET state == checkState(w) IN
  IF state # NoError THEN Throw(w, state)
  ELSE IF item = Null \/ ~Has(item, "id") \/ item.id = NoId
    THEN Throw(w, TYPE_ERROR_INVALID_ITEM)
  ELSE IF ~w.ldb THEN Throw(w, TYPE_ERROR_NO_LDB)
  ELSE IF item.id \notin DOMAIN w.items THEN Throw(w, ERROR_ITEM_DOES_NOT_EXIST)
  ELSE
    LET orig == decrypt(w.keystore, item.id, w.items[item.id].encrypted) IN
    IF orig.err # NoError THEN Throw(w, orig.err)
    ELSE
      LET prepared == ItemsPrepare(item, orig.item, item.id, orig.item.last_used) IN
      IF prepared.err # NoError THEN Throw(w, prepared.err)
      ELSE
        LET fields == determineItemChanges(orig.item, prepared.item)
            enc == encrypt(w.keystore, prepared.item)
            w1 == [w EXCEPT !.keystore = enc.ks]
            put == itemsPut(w1, item.id, ItemRecord(prepared.item, enc.encrypted))
        IN IF put.err # NoError THEN Throw(put.w, put.err)
           ELSE Recorded(Result(put.w, NoError, prepared.item,
                           <<Metric("updated", prepared.item.id, fields)>>))

\* touch(item)
touch(w, item, now) ==
  LET state == checkState(w) IN
  IF state # NoError THEN Throw(w, state)
  ELSE IF item = Null \/ ~Has(item, "id") \/ item.id = NoId
    THEN Throw(w, INVALID_ITEM)
  ELSE IF ~w.ldb THEN Throw(w, TYPE_ERROR_NO_LDB)
  ELSE IF item.id \notin DOMAIN w.items THEN Throw(w, MISSING_ITEM)
  ELSE
    LET orig == decrypt(w.keystore, item.id, w.items[item.id].encrypted) IN
    IF orig.err # NoError THEN Throw(w, orig.err)
    ELSE
      LET touched == [orig.item EXCEPT !.last_used = now]
          enc == encrypt(w.keystore, touched)
          w1 == [w EXCEPT !.keystore = enc.ks]
          put == itemsPut(w1, item.id, ItemRecord(touched, enc.encrypted))
      IN IF put.err # NoError THEN Throw(put.w, put.err)
         ELSE Result(put.w, NoError, touched,
                     <<Metric("touched", item.id, Undefined)>>)

\* remove that records the "deleted" metric for id whether or not an item
\* was stored under it.
removeAlwaysRecords(w, id) ==
  LET state == checkState(w) IN
  IF state # NoError THEN Throw(w, state)
  ELSE IF ~w.ldb THEN Throw(w, TYPE_ERROR_NO_LDB)
  ELSE IF id \notin DOMAIN w.items
    THEN Result(w, NoError, Null, <<Metric("deleted", id, Undefined)>>)
  ELSE
    LET item == decrypt(w.keystore, id, w.items[id].encrypted) IN
    IF item.err # NoError THEN Throw(w, item.err)
    ELSE
      LET saved == save(keystoreDelete(w.keystore, id)) IN
      IF saved.err # NoError
        THEN Throw([w EXCEPT !.keystore = keystoreDelete(@, id)], saved.err)
      ELSE Result([w EXCEPT !.keystore = saved.ks,
                            !.items = MapDelete(@, id),
                            !.keystores = toJSON(saved.ks)],
                  NoError, item.item, <<Metric("deleted", item.item.id, Undefined)>>)

\* remove that deletes the item record and leaves the item's key in the
\* keystore.
removeKeepsKey(w, id) ==
  LET state == checkState(w) IN
  IF state # NoError THEN Throw(w, state)
  ELSE IF ~w.ldb THEN Throw(w, TYPE_ERROR_NO_LDB)
  ELSE IF id \notin DOMAIN w.items THEN Result(w, NoError, Null, <<>>)
  ELSE
    LET item == decrypt(w.keystore, id, w.items[id].encrypted) IN
    IF item.err # NoError THEN Throw(w, item.err)
    ELSE
      LET saved == save(w.keystore) IN
      IF saved.err # NoError THEN Throw(w, saved.err)
      ELSE Result([w EXCEPT !.keystore = saved.ks,
                            !.items = MapDelete(@, id),
                            !.keystores = toJSON(saved.ks)],
                  NoError, item.item, <<Metric("deleted", item.item.id, Undefined)>>)

\* remove(id)
remove(w, id) ==
  LET state == checkState(w) IN
  IF state # NoError THEN Throw(w, state)
  ELSE IF ~w.ldb THEN Throw(w, TYPE_ERROR_NO_LDB)
  ELSE IF id \notin DOMAIN w.items THEN Result(w, NoError, Null, <<>>)
  ELSE
    LET item == decrypt(w.keystore, id, w.items[id].encrypted) IN
    IF item.err # NoError THEN Throw(w, item.err)
    ELSE
      LET saved == save(keystoreDelete(w.keystore, id)) IN
      IF saved.err # NoError
        THEN Throw([w EXCEPT !.keystore = keystoreDelete(@, id)], saved.err)
      ELSE
        LET w1 == [w EXCEPT !.keystore = saved.ks]
            tx == transaction(w1, MapDelete(w1.items, id), toJSON(saved.ks))
        IN IF tx.err # NoError THEN Throw(tx.w, tx.err)
           ELSE Recorded(Result(tx.w, NoError, item.item,
                           <<Metric("deleted", item.item.id, Undefined)>>))

(***************************************************************************)
(* The callers' inputs                                                     *)
(***************************************************************************)
\* cfg.keys of the constructor: none, or the tests' encrypted empty key map
ConfigKeys == {Null, EncryptedEmpty}

InitializeOpts == [password : Passwords, salt : Salts, rebase : BOOLEAN]

Login(password) == [kind |-> "login", username |-> "foo", password |-> password]

ValidItems ==
  {[title |-> t, entry |-> Login(p)] : t \in Titles, p \in LoginPasswords}

\* an item without entry, and one of an unknown kind
InvalidItems ==
  {[title |-> "My Item"], [title |-> "My Item", entry |-> [kind |-> "note"]]}

\* what add is called with: nothing, or an item (its id, if any, is replaced)
AddItems ==
  {Null} \cup ValidItems \cup InvalidItems
  \cup {[id |-> n, title |-> "My Item", entry |-> Login("bar")] : n \in Ids}

\* what update and touch are called with: nothing, an item without id, or an
\* item naming an id
UpdateItems ==
  {Null, [title |-> "My Item", entry |-> Login("bar")]}
  \cup {Assign(i, [id |-> n]) :
          i \in ValidItems \cup {[title |-> "My Item"]}, n \in Ids}

\* what touch is called with: nothing, an item without id, or a stored item
\* (only its id is read)
TouchItems ==
  {Null, [title |-> "My Item", entry |-> Login("bar")]} \cup {[id |-> n] : n \in Ids}

(***************************************************************************)
(* Actions: one per method                                                 *)
(***************************************************************************)
\* no second instance
NoInstance == [keystore |-> Null, ldb |-> FALSE]

\* no call in flight
NoCall == [pc |-> "idle"]

\* the state of the vault a call found
StateOf(w) == [initialized |-> initialized(w), locked |-> locked(w), prepared |-> w.ldb]

\* The call op(args) ran as r says.
Apply(op, args, r) ==
  /\ keystore' = r.w.keystore
  /\ ldb' = r.w.ldb
  /\ dbItems' = r.w.items
  /\ dbKeystores' = r.w.keystores
  /\ uuid' = r.w.uuid
  /\ last' = [op |-> op, args |-> args, pre |-> StateOf(World),
              err |-> r.err, res |-> r.res, ev |-> r.ev]
  /\ UNCHANGED <<other, pending>>

Init ==
  /\ \E keys \in ConfigKeys : keystore = ItemKeyStore(Undefined, keys, Null)
  /\ ldb = FALSE
  /\ dbItems = EmptyMap
  /\ dbKeystores = Null
  /\ uuid = 0
  /\ last = [op |-> "new", args |-> Null,
             pre |-> [initialized |-> FALSE, locked |-> TRUE, prepared |-> FALSE],
             err |-> NoError, res |-> This, ev |-> <<>>]
  /\ other = NoInstance
  /\ pending = NoCall

\* A new DataStore on the same bucket (the persistence tests' second datastore).
Construct ==
  \E keys \in ConfigKeys :
    Apply("new", [keys |-> keys],
          Result(constructor(World, keys), NoError, This, <<>>))

Prepare == Apply("prepare", Null, prepare(World))

Initialize == \E opts \in InitializeOpts : Apply("initialize", opts, initialize(World, opts))

Reset == Apply("reset", Null, reset(World))

Lock == Apply("lock", Null, lock(World))

Unlock == \E pwd \in Passwords : Apply("unlock", [pwd |-> pwd], unlock(World, pwd))

List == Apply("list", Null, list(World))

Get == \E id \in Ids : Apply("get", [id |-> id], get(World, id))

Add ==
  \E item \in AddItems, now \in Times :
    LET r == add(World, item, now) IN
    /\ r.w.uuid <= MaxItems
    /\ Apply("add", [item |-> item, now |-> now], r)

Update == \E item \in UpdateItems : Apply("update", [item |-> item], update(World, item))

Touch ==
  \E item \in TouchItems, now \in Times :
    Apply("touch", [item |-> item, now |-> now], touch(World, item, now))

Remove == \E id \in Ids : Apply("remove", [id |-> id], remove(World, id))

Next ==
  \/ Construct
  \/ Prepare
  \/ Initialize
  \/ Reset
  \/ Lock
  \/ Unlock
  \/ List
  \/ Get
  \/ Add
  \/ Update
  \/ Touch
  \/ Remove

Spec == Init /\ [][Next]_vars

(***************************************************************************)
(* update and its change report: an unlocked vault holding one item, which *)
(* update replaces by items whose title, origins and entry fields are      *)
(* changed, added or left out.                                             *)
(***************************************************************************)
\* an object with the property f set to one of vals, or without it
Optional(f, vals) == {EmptyMap} \cup {[x \in {f} |-> v] : v \in vals}

OriginLists ==
  {<<>>, <<"a.example">>, <<"a.example", "b.example">>,
   <<"b.example", "a.example">>, <<"a.example", "a.example">>}

RichEntries ==
  {Assign(Assign([kind |-> "login", password |-> pw], u), n) :
     pw \in {"bar", "baz"},
     u \in Optional("username", {"foo"}),
     n \in Optional("notes", {"some notes"})}

\* the items the vault of SpecDiff is given
RichItems ==
  {Assign(Assign([entry |-> e], t), o) :
     e \in RichEntries,
     t \in Optional("title", {"My Item"}),
     o \in Optional("origins", OriginLists)}

\* A prepared and initialized vault on an empty bucket.
DiffBase ==
  initialize([keystore |-> ItemKeyStore(Undefined, Null, Null), ldb |-> FALSE,
              items |-> EmptyMap, keystores |-> Null, uuid |-> 0,
              fault |-> NoFault, sink |-> "resolves"],
             [password |-> FIXTURE_PASSWORD, salt |-> Undefined, rebase |-> FALSE]).w

\* The vault after add stored its first item.
InitDiff ==
  \E item \in RichItems :
    LET r == add(DiffBase, item, "t0") IN
    /\ keystore = r.w.keystore
    /\ ldb = r.w.ldb
    /\ dbItems = r.w.items
    /\ dbKeystores = r.w.keystores
    /\ uuid = r.w.uuid
    /\ last = [op |-> "add", args |-> [item |-> item, now |-> "t0"],
               pre |-> StateOf(DiffBase),
               err |-> r.err, res |-> r.res, ev |-> r.ev]
    /\ other = NoInstance
    /\ pending = NoCall

\* update of the stored item with any of the items, as long as its entry is
\* the one it was added with (its history is empty): every pair of a stored
\* item and a replacement is met
UpdateRich ==
  \E item \in RichItems, id \in DOMAIN dbItems :
    LET replacement == Assign(item, [id |-> id]) IN
    /\ dbItems[id].encrypted.pt.history = <<>>
    /\ Apply("update", [item |-> replacement], update(World, replacement))

NextDiff == UpdateRich

SpecDiff == InitDiff /\ [][NextDiff]_vars

(***************************************************************************)
(* One instance whose database may fail a write or a commit and whose      *)
(* recordMetric may reject or throw.                                       *)
(***************************************************************************)
FaultItem == [title |-> "My Item", entry |-> Login("bar")]

\* The vault is prepared, initialized and unlocked, and stores nothing.
InitFault ==
  /\ keystore = DiffBase.keystore
  /\ ldb = DiffBase.ldb
  /\ dbItems = DiffBase.items
  /\ dbKeystores = DiffBase.keystores
  /\ uuid = DiffBase.uuid
  /\ last = [op |-> "initialize",
             args |-> [password |-> FIXTURE_PASSWORD, salt |-> Undefined,
                       rebase |-> FALSE],
             pre |-> [initialized |-> FALSE, locked |-> TRUE, prepared |-> FALSE],
             err |-> NoError, res |-> This, ev |-> <<>>]
  /\ other = NoInstance
  /\ pending = NoCall

\* how the database and the sink behave during one call: one of them may
\* misbehave
Envs ==
  {[fault |-> f, sink |-> "resolves"] : f \in Faults}
  \cup {[fault |-> NoFault, sink |-> k] : k \in Sinks}

AddInEnv ==
  \E env \in Envs :
    LET r == add(Env(World, env.fault, env.sink), FaultItem, "t0") IN
    /\ r.w.uuid <= MaxItems
    /\ Apply("add", [item |-> FaultItem, now |-> "t0",
                     fault |-> env.fault, sink |-> env.sink], r)

UpdateInEnv ==
  \E id \in Ids, env \in Envs :
    LET item == [id |-> id, title |-> "MY Item", entry |-> Login("bar")] IN
    Apply("update", [item |-> item, fault |-> env.fault, sink |-> env.sink],
          update(Env(World, env.fault, env.sink), item))

TouchInEnv ==
  \E id \in Ids, env \in {e \in Envs : e.fault = NoFault} :
    Apply("touch", [item |-> [id |-> id], now |-> "t1",
                    fault |-> env.fault, sink |-> env.sink],
          touch(Env(World, env.fault, env.sink), [id |-> id], "t1"))

RemoveInEnv ==
  \E id \in Ids, env \in Envs :
    Apply("remove", [id |-> id, fault |-> env.fault, sink |-> env.sink],
          remove(Env(World, env.fault, env.sink), id))

\* new DataStore() and prepare(): the bucket opened again, as after a crash
Reopen ==
  Apply("prepare", Null, prepare(constructor(World, Null)))

UnlockFixture ==
  Apply("unlock", [pwd |-> FIXTURE_PASSWORD], unlock(World, FIXTURE_PASSWORD))

NextFault ==
  \/ AddInEnv
  \/ UpdateInEnv
  \/ TouchInEnv
  \/ RemoveInEnv
  \/ Reopen
  \/ UnlockFixture
  \/ List
  \/ Get

SpecFault == InitFault /\ [][NextFault]_vars

(***************************************************************************)
(* Two instances on one bucket.  The methods act on the instance at hand   *)
(* (keystore, ldb); the second one is kept in `other`, and Switch turns to *)
(* it.  Both share the tables.                                             *)
(***************************************************************************)
\* the second instance and the database
OtherWorld == [World EXCEPT !.keystore = other.keystore, !.ldb = other.ldb]

\* The first datastore is prepared, initialized and unlocked; the second was
\* created on the same bucket and not yet prepared.
InitTwo ==
  /\ keystore = DiffBase.keystore
  /\ ldb = DiffBase.ldb
  /\ dbItems = DiffBase.items
  /\ dbKeystores = DiffBase.keystores
  /\ uuid = DiffBase.uuid
  /\ last = [op |-> "initialize",
             args |-> [password |-> FIXTURE_PASSWORD, salt |-> Undefined,
                       rebase |-> FALSE],
             pre |-> [initialized |-> FALSE, locked |-> TRUE, prepared |-> FALSE],
             err |-> NoError, res |-> This, ev |-> <<>>]
  /\ other = [keystore |-> ItemKeyStore(Undefined, Null, Null), ldb |-> FALSE]
  /\ pending = NoCall

\* The next call goes to the other instance.
Switch ==
  /\ keystore' = other.keystore
  /\ ldb' = other.ldb
  /\ other' = [keystore |-> keystore, ldb |-> ldb]
  /\ last' = [op |-> "switch", args |-> Null, pre |-> StateOf(World),
              err |-> NoError, res |-> This, ev |-> <<>>]
  /\ UNCHANGED <<dbItems, dbKeystores, uuid, pending>>

AddOne ==
  LET r == add(World, FaultItem, "t0") IN
  /\ r.w.uuid <= MaxItems
  /\ Apply("add", [item |-> FaultItem, now |-> "t0"], r)

UpdateOne ==
  \E id \in Ids :
    LET item == [id |-> id, title |-> "MY Item", entry |-> Login("bar")] IN
    Apply("update", [item |-> item], update(World, item))

NextTwo ==
  \/ Switch
  \/ Prepare
  \/ UnlockFixture
  \/ Lock
  \/ AddOne
  \/ UpdateOne
  \/ Remove
  \/ List
  \/ Get

SpecTwo == InitTwo /\ [][NextTwo]_vars

(***************************************************************************)
(* Calls submitted without waiting.  An async method runs up to its next   *)
(* await when it is called or resumed, and other calls run in between: add *)
(* is taken apart at its awaits (encrypt, save, transaction), and lock,    *)
(* unlock and remove are submitted while it is in flight.  `pending` holds *)
(* the add in flight and, in serial, the vault had the calls run one at a  *)
(* time in the order they were submitted.                                  *)
(***************************************************************************)
InitAsync == InitFault

\* The step of a call: the vault as r says, the call in flight as p says.
Step(op, args, r, p) ==
  /\ keystore' = r.w.keystore
  /\ ldb' = r.w.ldb
  /\ dbItems' = r.w.items
  /\ dbKeystores' = r.w.keystores
  /\ uuid' = r.w.uuid
  /\ last' = [op |-> op, args |-> args, pre |-> StateOf(World),
              err |-> r.err, res |-> r.res, ev |-> r.ev]
  /\ pending' = p
  /\ UNCHANGED other

InFlight == pending.pc \in {"encrypt", "save"}

\* The add in flight ended as r says.
Settled(r) == [pc |-> "done", serial |-> pending.serial,
               expected |-> pending.expected, err |-> r.err, res |-> r.res]

\* add(item) is called: it runs to `await self.keystore.encrypt(item)`.
AddCalled ==
  /\ ~InFlight
  /\ uuid < MaxItems
  /\ LET serial == add(World, FaultItem, "t0")
         expected == [err |-> serial.err, res |-> serial.res]
         state == checkState(World)
         prepared == ItemsPrepare(FaultItem, Null, uuid + 1, "t0")
         enc == encrypt(keystore, prepared.item)
         args == [item |-> FaultItem, now |-> "t0"]
     IN IF state # NoError
          THEN Step("add", args, Throw(World, state),
                    [pc |-> "done", serial |-> serial.w, expected |-> expected,
                     err |-> state, res |-> Null])
          ELSE Step("add called", args,
                    Result([World EXCEPT !.uuid = @ + 1, !.keystore = enc.ks],
                           NoError, Null, <<>>),
                    [pc |-> "encrypt", serial |-> serial.w, expected |-> expected,
                     item |-> prepared.item, encrypted |-> enc.encrypted,
                     ldb |-> FALSE])

\* add resumes after encrypt: `let ldb = self.ldb; await self.keystore.save()`.
AddSaves ==
  /\ pending.pc = "encrypt"
  /\ LET saved == save(keystore) IN
     IF saved.err # NoError
       THEN Step("add", Null, Throw(World, saved.err), Settled(Throw(World, saved.err)))
       ELSE Step("add saved", Null,
                 Result([World EXCEPT !.keystore = saved.ks], NoError, Null, <<>>),
                 [pending EXCEPT !.pc = "save", !.ldb = ldb])

\* add resumes after save: the transaction, recordMetric, return item.
AddCommits ==
  /\ pending.pc = "save"
  /\ LET r == IF ~pending.ldb THEN Throw(World, TYPE_ERROR_NO_LDB)
              ELSE LET tx == transaction(World,
                               MapPut(dbItems, pending.item.id,
                                      ItemRecord(pending.item, pending.encrypted)),
                               toJSON(keystore))
                   IN IF tx.err # NoError THEN Throw(tx.w, tx.err)
                      ELSE Recorded(Result(tx.w, NoError, pending.item,
                              <<Metric("added", pending.item.id, Undefined)>>))
     IN Step("add", Null, r, Settled(r))

\* A call submitted after the add in flight: in the serial order it runs
\* after the add has finished.
Submitted(r) ==
  IF InFlight THEN [pending EXCEPT !.serial = r.w] ELSE NoCall

LockSubmitted ==
  Step("lock", Null, lock(World),
       Submitted(lock(IF InFlight THEN pending.serial ELSE World)))

UnlockSubmitted ==
  Step("unlock", [pwd |-> FIXTURE_PASSWORD], unlock(World, FIXTURE_PASSWORD),
       Submitted(unlock(IF InFlight THEN pending.serial ELSE World, FIXTURE_PASSWORD)))

RemoveSubmitted ==
  \E id \in Ids :
    Step("remove", [id |-> id], remove(World, id),
         Submitted(remove(IF InFlight THEN pending.serial ELSE World, id)))

ListIdle == ~InFlight /\ Step("list", Null, list(World), NoCall)

NextAsync ==
  \/ AddCalled
  \/ AddSaves
  \/ AddCommits
  \/ LockSubmitted
  \/ UnlockSubmitted
  \/ RemoveSubmitted
  \/ ListIdle

SpecAsync == InitAsync /\ [][NextAsync]_vars

(***************************************************************************)
(* update and the item's history: an unlocked vault holding one item,      *)
(* whose entry and title update changes again and again.  The history is   *)
(* bounded by HISTORY_MAX, so the vault has finitely many states.          *)
(***************************************************************************)
HistoryEntries ==
  {Login("bar"), Login("baz"), Assign(Login("bar"), [notes |-> "a note"])}

HistoryItems ==
  {[title |-> t, entry |-> e] : t \in {"My Item", "MY Item"}, e \in HistoryEntries}

\* The vault after add stored its first item.
InitHistory ==
  \E item \in HistoryItems :
    LET r == add(DiffBase, item, "t0") IN
    /\ keystore = r.w.keystore
    /\ ldb = r.w.ldb
    /\ dbItems = r.w.items
    /\ dbKeystores = r.w.keystores
    /\ uuid = r.w.uuid
    /\ last = [op |-> "add", args |-> [item |-> item, now |-> "t0"],
               pre |-> StateOf(DiffBase),
               err |-> r.err, res |-> r.res, ev |-> r.ev]
    /\ other = NoInstance
    /\ pending = NoCall

\* update of the stored item, as the CRUD test does it: the item get
\* returned, with a title or an entry of its own
UpdateStored ==
  \E item \in HistoryItems, id \in DOMAIN dbItems :
    LET replacement == Assign(get(World, id).res, item) IN
    Apply("update", [item |-> replacement], update(World, replacement))

NextHistory == UpdateStored \/ List

SpecHistory == InitHistory /\ [][NextHistory]_vars

(***************************************************************************)
(* A vault whose items table is written behind its back: the ciphertexts   *)
(* of two records are swapped, or one record is given the ciphertext of    *)
(* another.                                                                *)
(***************************************************************************)
InitTamper == InitFault

\* The tables changed outside the DataStore.
Tampered(op, args, items) ==
  /\ dbItems' = items
  /\ last' = [op |-> op, args |-> args, pre |-> StateOf(World),
              err |-> NoError, res |-> Null, ev |-> <<>>]
  /\ UNCHANGED <<keystore, ldb, dbKeystores, uuid, other, pending>>

\* the `encrypted` members of the records of a and b change places
Swap ==
  \E a \in DOMAIN dbItems, b \in DOMAIN dbItems :
    /\ a < b
    /\ Tampered("swap", [a |-> a, b |-> b],
                [dbItems EXCEPT ![a].encrypted = dbItems[b].encrypted,
                                ![b].encrypted = dbItems[a].encrypted])

\* the record of a gets the `encrypted` member of the record of b
Overwrite ==
  \E a \in DOMAIN dbItems, b \in DOMAIN dbItems :
    /\ a # b
    /\ Tampered("overwrite", [a |-> a, b |-> b],
                [dbItems EXCEPT ![a].encrypted = dbItems[b].encrypted])

NextTamper ==
  \/ AddOne
  \/ UpdateOne
  \/ Swap
  \/ Overwrite
  \/ Lock
  \/ UnlockFixture
  \/ List
  \/ Get

SpecTamper == InitTamper /\ [][NextTamper]_vars

(***************************************************************************)
(* The ItemKeyStore on its own, as its tests use it: made with or without  *)
(* an encrypted key map and a master key, then loaded, saved, given and    *)
(* taken keys, and cleared.                                                *)
(***************************************************************************)
MasterKeys == {Null, passwordToKey(FIXTURE_PASSWORD), passwordToKey("pw2")}

InitKeystore ==
  /\ \E encrypted \in {Null, EncryptedEmpty}, masterKey \in MasterKeys :
       keystore = ItemKeyStore(Undefined, encrypted, masterKey)
  /\ ldb = FALSE
  /\ dbItems = EmptyMap
  /\ dbKeystores = Null
  /\ uuid = 0
  /\ last = [op |-> "new", args |-> Null,
             pre |-> [initialized |-> FALSE, locked |-> TRUE, prepared |-> FALSE],
             err |-> NoError, res |-> This, ev |-> <<>>]
  /\ other = NoInstance
  /\ pending = NoCall

\* A method of the keystore ran as r ([ks, err]) says.
OnKeystore(op, args, r) ==
  Apply(op, args,
        Result([World EXCEPT !.keystore = r.ks], r.err,
               IF r.err = NoError THEN This ELSE Null, <<>>))

KeystoreLoad ==
  \E masterKey \in MasterKeys :
    OnKeystore("load", [masterKey |-> masterKey], load(keystore, masterKey))

KeystoreSave == OnKeystore("save", Null, save(keystore))

KeystoreAdd ==
  \E id \in Ids :
    OnKeystore("add", [id |-> id], [ks |-> keystoreAdd(keystore, id), err |-> NoError])

KeystoreDelete ==
  \E id \in Ids :
    OnKeystore("delete", [id |-> id],
               [ks |-> keystoreDelete(keystore, id), err |-> NoError])

KeystoreClear ==
  \E hard \in BOOLEAN :
    OnKeystore("clear", [hard |-> hard], [ks |-> clear(keystore, hard), err |-> NoError])

NextKeystore ==
  \/ KeystoreLoad
  \/ KeystoreSave
  \/ KeystoreAdd
  \/ KeystoreDelete
  \/ KeystoreClear

SpecKeystore == InitKeystore /\ [][NextKeystore]_vars

(***************************************************************************)
(* Properties                                                              *)
(***************************************************************************)
DataOps == {"list", "get", "add", "update", "touch", "remove"}

\* The step changed nothing stored or held in memory.
NothingChanged == UNCHANGED <<keystore, ldb, dbItems, dbKeystores, uuid>>

\* No persisted keyring: none in memory and none for prepare to load.
Fresh(w) == ~initialized(w) /\ (w.ldb \/ w.keystores = Null)

\* An Unlocked vault: it has its database, a persisted keyring and the
\* master key.  (An instance that was constructed and never prepared is not
\* yet one: it has no database.)
Unlocked(w) == w.ldb /\ initialized(w) /\ ~locked(w)

\* C1: while the vault is initialized but locked, each of list, get, add,
\* update, touch and remove fails with LOCKED whatever its argument, changes
\* neither table nor the in-memory keystore, and records no metric.
C1_LockedGate ==
  [][(last'.op \in DataOps /\ initialized(World) /\ locked(World))
       => (last'.err = LOCKED /\ last'.ev = <<>> /\ NothingChanged)]_vars

\* C1 witness: remove of a stored item's id was refused on a locked vault.
C1_Witness ==
  /\ last.op = "remove" /\ last.err = LOCKED
  /\ last.pre.initialized /\ last.pre.locked
  /\ last.args.id \in DOMAIN dbItems

\* C2: while the vault is not initialized, each of list, get, add, update,
\* touch and remove fails with NOT_INITIALIZED (not LOCKED) and changes nothing.
C2_UninitializedGate ==
  [][(last'.op \in DataOps /\ ~initialized(World))
       => (last'.err = NOT_INITIALIZED /\ last'.ev = <<>> /\ NothingChanged)]_vars

\* C2 witness: list was refused on a vault that had been reset after items
\* were added.
C2_Witness ==
  /\ last.op = "list" /\ last.err = NOT_INITIALIZED
  /\ ~last.pre.initialized /\ last.pre.locked
  /\ uuid > 0 /\ dbKeystores = Null

\* C3: in every state where the vault is prepared and unlocked (so after
\* initialize and any successful add, update, touch, remove), list succeeds,
\* and lock followed by unlock with the master the vault is held under
\* succeeds and list then returns the same map.
C3_LockUnlockRestoresList ==
  \A pwd \in Passwords :
    (ldb /\ checkState(World) = NoError /\ passwordToKey(pwd) = keystore.masterKey)
      => LET before == list(World)
             reopened == unlock(lock(World).w, pwd)
             after == list(reopened.w)
         IN /\ before.err = NoError
            /\ lock(World).err = NoError /\ locked(lock(World).w)
            /\ reopened.err = NoError
            /\ after.err = NoError
            /\ after.res = before.res

\* C3 witness: the vault was locked and is unlocked again, holding a stored
\* item last used at the later time.
C3_Witness ==
  /\ last.op = "unlock" /\ last.err = NoError /\ last.pre.locked
  /\ ldb /\ ~locked(World)
  /\ \E id \in DOMAIN dbItems : dbItems[id].encrypted.pt.last_used = "t1"

\* C4: initialize with a master secret on a Fresh vault succeeds and returns
\* the vault, which is then initialized and unlocked with an empty key map,
\* whose wrapped form under that master is the keystores record; list is
\* empty, and lock then unlock with the same master succeeds.
C4_InitializeFresh ==
  [][(last'.op = "initialize" /\ Fresh(World) /\ OrEmpty(last'.args.password) # "")
       => LET relocked == lock(World').w
              reopened == unlock(relocked, last'.args.password)
          IN /\ last'.err = NoError /\ last'.res = This
             /\ initialized(World') /\ ~locked(World')
             /\ keystore'.keys = EmptyMap
             /\ dbKeystores' = toJSON(keystore')
             /\ dbKeystores'.encrypted.keys = EmptyMap
             /\ unwraps(passwordToKey(last'.args.password), dbKeystores'.encrypted)
             /\ list(World').err = NoError /\ list(World').res = EmptyMap
             /\ locked(relocked)
             /\ reopened.err = NoError /\ ~locked(reopened.w)]_vars

\* C4 witness: initialize succeeded on a vault that was reset after items
\* had been added.
C4_Witness ==
  /\ last.op = "initialize" /\ last.err = NoError
  /\ ~last.pre.initialized /\ last.args.password = "pw2"
  /\ uuid > 0

C6_WrongMasterUnlock ==
  [][(last'.op = "unlock" /\ initialized(World) /\ locked(World)
      /\ ~unwraps(passwordToKey(last'.args.pwd), keystore.encrypted))
       => /\ last'.err = INVALID_MASTER_KEY
          /\ NothingChanged
          /\ locked(World') /\ keystore'.masterKey = Null
          /\ keystore'.keys = EmptyMap
          /\ \E good \in Passwords : unwraps(passwordToKey(good), keystore.encrypted)
          /\ \A good \in Passwords :
               unwraps(passwordToKey(good), keystore.encrypted)
                 => LET opened == unlock(World', good) IN
                    opened.err = NoError /\ ~locked(opened.w)]_vars

\* C6 witness: unlock with a wrong master was refused on a locked vault that
\* stores an item.
C6_Witness ==
  /\ last.op = "unlock" /\ last.err = INVALID_MASTER_KEY
  /\ last.pre.initialized /\ last.pre.locked
  /\ dbItems # EmptyMap /\ locked(World)

\* C7: initialize on a Fresh vault without a master (absent or empty) fails
\* with MISSING_APP_KEY and leaves the vault Fresh: no keystore is created in
\* memory or in the keystores table.
C7_InitializeWithoutMaster ==
  [][(last'.op = "initialize" /\ Fresh(World) /\ OrEmpty(last'.args.password) = "")
       => /\ last'.err = MISSING_APP_KEY
          /\ ~initialized(World')
          /\ dbKeystores' = Null]_vars

\* C8: after reset, from any state, the vault is not initialized, the items
\* table and the keystores record are gone and no master or item key is in
\* memory; initialize then succeeds and list is empty.
C8_ResetLeavesFresh ==
  [][(last'.op = "reset")
       => /\ last'.err = NoError
          /\ ~initialized(World')
          /\ dbItems' = EmptyMap /\ dbKeystores' = Null
          /\ keystore'.masterKey = Null /\ keystore'.keys = EmptyMap
          /\ \A opts \in InitializeOpts :
               LET again == initialize(World', opts) IN
               OrEmpty(opts.password) # ""
                 => /\ again.err = NoError
                    /\ list(again.w).err = NoError
                    /\ list(again.w).res = EmptyMap]_vars

\* C9: on an unlocked vault, initialize with a new master and rebase = true
\* succeeds and leaves the vault initialized and unlocked; lock then unlock
\* with the new master succeeds and list is as before the rebase, and unlock
\* with the old master is refused with "invalid master key".
C9_RebaseUnlocked ==
  [][(last'.op = "initialize" /\ last'.args.rebase /\ ldb
      /\ checkState(World) = NoError
      /\ passwordToKey(last'.args.password) # keystore.masterKey)
       => LET relocked == lock(World').w
              reopened == unlock(relocked, last'.args.password)
          IN /\ last'.err = NoError
             /\ initialized(World') /\ ~locked(World')
             /\ reopened.err = NoError
             /\ list(reopened.w).err = NoError
             /\ list(reopened.w).res = list(World).res
             /\ \A old \in Passwords :
                  passwordToKey(old) = keystore.masterKey
                    => unlock(relocked, old).err = INVALID_MASTER_KEY]_vars

\* C10: initialize with rebase = true on an initialized, locked vault fails
\* with LOCKED (not INITIALIZED) and leaves the keystores record and the item
\* records unchanged.
C10_RebaseLocked ==
  [][(last'.op = "initialize" /\ last'.args.rebase
      /\ initialized(World) /\ locked(World))
       => /\ last'.err = LOCKED
          /\ dbKeystores' = dbKeystores
          /\ dbItems' = dbItems]_vars

\* C11: unlock on a vault that is already unlocked succeeds, returning the
\* vault, and changes nothing (master key, in-memory key map, both tables),
\* whatever master it is given: the right one, a wrong one or none.
C11_UnlockWhenUnlocked ==
  [][(last'.op = "unlock" /\ ~locked(World))
       => (last'.err = NoError /\ last'.res = This /\ NothingChanged)]_vars

\* C11 witness: unlock with a master that does not open the key map
\* succeeded on an unlocked vault that stores an item.
C11_Witness ==
  /\ last.op = "unlock" /\ last.err = NoError /\ ~last.pre.locked
  /\ ~unwraps(passwordToKey(last.args.pwd), keystore.encrypted)
  /\ ~locked(World) /\ dbItems # EmptyMap

\* C12: lock succeeds from any state and leaves the vault locked, with no
\* master key and an empty item-key map in memory, while the encrypted key
\* map, the keystores record and the item records stay as they were; on a
\* vault that is already locked it changes nothing.
C12_LockClearsMemory ==
  [][(last'.op = "lock")
       => /\ last'.err = NoError
          /\ locked(World')
          /\ keystore'.masterKey = Null
          /\ keystore'.keys = EmptyMap
          /\ keystore'.encrypted = keystore.encrypted
          /\ dbKeystores' = dbKeystores
          /\ dbItems' = dbItems
          /\ (locked(World) => NothingChanged)]_vars

\* C12 witness: lock ran on an unlocked vault that stores an item; the vault
\* is locked and no item key is in memory.
C12_Witness ==
  /\ last.op = "lock" /\ last.err = NoError
  /\ last.pre.initialized /\ ~last.pre.locked
  /\ locked(World) /\ keystore.keys = EmptyMap /\ dbItems # EmptyMap

\* C13: lock and reset succeed in every reachable state, a constructed and
\* never prepared instance (with or without configured keys) included.
C13_LockResetNeverFail ==
  [][(last'.op \in {"lock", "reset"}) => last'.err = NoError]_vars

\* C14: after a successful remove(id) of a stored item on an Unlocked vault,
\* remove has returned the stored item, get(id) returns null, list has no
\* entry for id, and neither the in-memory key map nor the encrypted key map
\* in memory or in the keystores record holds a key for id.
C14_RemoveExisting ==
  [][(last'.op = "remove" /\ last'.err = NoError /\ Unlocked(World)
      /\ last'.args.id \in DOMAIN dbItems)
       => LET id == last'.args.id IN
          /\ get(World, id).err = NoError
          /\ last'.res = get(World, id).res
          /\ last'.res.id = id
          /\ get(World', id).err = NoError /\ get(World', id).res = Null
          /\ list(World').err = NoError
          /\ id \notin DOMAIN list(World').res
          /\ id \notin DOMAIN dbItems'
          /\ id \notin DOMAIN keystore'.keys
          /\ id \notin DOMAIN keystore'.encrypted.keys
          /\ id \notin DOMAIN dbKeystores'.encrypted.keys]_vars

\* C14 witness: remove returned the stored item of an id while another item
\* stays stored.
C14_Witness ==
  /\ last.op = "remove" /\ last.err = NoError /\ last.res # Null
  /\ last.args.id \notin DOMAIN dbItems
  /\ last.args.id \notin DOMAIN keystore.keys
  /\ Unlocked(World) /\ dbItems # EmptyMap

\* C15: on an Unlocked vault, remove(id) of an id without item record
\* returns null, records no metric and changes neither table nor the
\* in-memory keystore; get(id) of such an id returns null as well.
C15_MissingIdIsNull ==
  [][(last'.op \in {"remove", "get"} /\ Unlocked(World)
      /\ last'.args.id \notin DOMAIN dbItems)
       => /\ last'.err = NoError
          /\ last'.res = Null
          /\ last'.ev = <<>>
          /\ NothingChanged]_vars

\* C15 witness: remove of an id that was never stored returned null on an
\* Unlocked vault that stores another item.
C15_Witness ==
  /\ last.op = "remove" /\ last.err = NoError /\ last.res = Null
  /\ last.pre.prepared /\ ~last.pre.locked
  /\ last.args.id > uuid
  /\ Unlocked(World) /\ dbItems # EmptyMap

\* C16: every item add returns has an id that was never assigned before, so
\* one that no stored item has, whatever id the caller's item came with; add
\* puts one record, under that id, and leaves every other record as it was;
\* and every record is stored under the id of the item it holds.
C16_AddAssignsFreshId ==
  /\ [](\A i \in DOMAIN dbItems :
          dbItems[i].id = i /\ dbItems[i].encrypted.pt.id = i)
  /\ [][(last'.op = "add" /\ last'.err = NoError)
          => LET id == last'.res.id IN
             /\ id \notin DOMAIN dbItems
             /\ id \notin 1 .. uuid
             /\ Has(last'.args.item, "id")
                  => (last'.args.item.id \in DOMAIN dbItems
                        => id # last'.args.item.id)
             /\ DOMAIN dbItems' = (DOMAIN dbItems) \cup {id}
             /\ \A i \in DOMAIN dbItems : dbItems'[i] = dbItems[i]]_vars

\* C16 witness: add was given an item carrying the id of a stored item and
\* returned one with another id; both are stored.
C16_Witness ==
  /\ last.op = "add" /\ last.err = NoError
  /\ Has(last.args.item, "id")
  /\ last.args.item.id \in DOMAIN dbItems
  /\ last.res.id # last.args.item.id
  /\ last.res.id \in DOMAIN dbItems

\* C17: every successful add, update, touch and remove of a stored item
\* hands recordMetric exactly one event, before the call returns: "added",
\* "updated", "touched", "deleted" with the id of the item; the added,
\* touched and deleted events carry no fields; list and get hand it none.
C17_OneEventPerMutation ==
  [][/\ last'.op \in {"list", "get"} => last'.ev = <<>>
     /\ (last'.op = "add" /\ last'.err = NoError)
          => last'.ev = <<Metric("added", last'.res.id, Undefined)>>
     /\ (last'.op = "update" /\ last'.err = NoError)
          => /\ Len(last'.ev) = 1
             /\ last'.ev[1].method = "updated"
             /\ last'.ev[1].id = last'.args.item.id
             /\ last'.ev[1].id = last'.res.id
     /\ (last'.op = "touch" /\ last'.err = NoError)
          => last'.ev = <<Metric("touched", last'.args.item.id, Undefined)>>
     /\ (last'.op = "remove" /\ last'.err = NoError /\ last'.res # Null)
          => last'.ev = <<Metric("deleted", last'.args.id, Undefined)>>]_vars

\* C17 witness: a touch of the second item succeeded and handed over one
\* "touched" event with its id.
C17_Witness ==
  /\ last.op = "touch" /\ last.err = NoError
  /\ last.args.item.id = 2
  /\ last.ev = <<Metric("touched", 2, Undefined)>>

\* the fields determineItemChanges reports on, in its order
ComparedFields ==
  <<"title", "origins", "entry.username", "entry.password", "entry.notes">>

\* the value an item has for a compared field: the origins as a set
FieldValue(item, f) ==
  CASE f = "title" -> {Prop(item, "title")}
    [] f = "origins" -> Elems(item.origins)
    [] f = "entry.username" -> {Prop(item.entry, "username")}
    [] f = "entry.password" -> {Prop(item.entry, "password")}
    [] f = "entry.notes" -> {Prop(item.entry, "notes")}

\* the compared fields in which two stored items differ
ChangedFields(a, b) ==
  SelectSeq(ComparedFields, LAMBDA f : FieldValue(a, f) # FieldValue(b, f))

\* C18: for every stored item and every replacement given to update (fields
\* changed, added or left out), the "updated" event's fields string is the
\* comma-joined list, in the order title, origins, entry.username,
\* entry.password, entry.notes, of exactly the fields whose value differs
\* between the item stored before and the item update stores, origins being
\* compared as sets; it is "" when none of the five differs.
C18_UpdatedFields ==
  [][(last'.op = "update" /\ last'.err = NoError)
       => LET id == last'.args.item.id
              before == get(World, id).res
              after == get(World', id).res
          IN /\ after = last'.res
             /\ last'.ev =
                  <<Metric("updated", id, JoinComma(ChangedFields(before, after)))>>
             /\ (\A i \in DOMAIN ComparedFields :
                   FieldValue(before, ComparedFields[i])
                     = FieldValue(after, ComparedFields[i]))
                  => last'.ev[1].fields = ""]_vars

\* C18 witness: an update that left title and notes out and gave two origins
\* reported all five fields, in order.
C18_Witness ==
  /\ last.op = "update" /\ last.err = NoError
  /\ ~Has(last.args.item, "title") /\ ~Has(last.args.item.entry, "notes")
  /\ Has(last.args.item, "origins")
  /\ last.args.item.origins = <<"b.example", "a.example">>
  /\ last.ev[1].fields = "title,origins,entry.username,entry.password,entry.notes"

\* C19: on an Unlocked vault, update and touch of an item whose id has no
\* stored record fail with MISSING_ITEM, write to neither table, leave the
\* in-memory keystore as it was (no key is made for the id) and record no
\* metric.
C19_MissingItem ==
  [][(last'.op \in {"update", "touch"} /\ Unlocked(World)
      /\ Has(last'.args.item, "id")
      /\ last'.args.item.id \in Ids
      /\ last'.args.item.id \notin DOMAIN dbItems)
       => /\ last'.err = MISSING_ITEM
          /\ last'.ev = <<>>
          /\ NothingChanged]_vars

\* C20: on an Unlocked vault, add without an item, or with an item that has
\* no entry or an entry of unknown kind, and update without an item or with
\* an item without id, fail with INVALID_ITEM, store nothing, make no item
\* key and record no metric.
C20_InvalidItem ==
  [][(Unlocked(World)
      /\ \/ /\ last'.op = "add"
            /\ \/ last'.args.item = Null
               \/ ~Has(last'.args.item, "entry")
               \/ last'.args.item.entry.kind \notin KnownKinds
         \/ /\ last'.op = "update"
            /\ \/ last'.args.item = Null
               \/ ~Has(last'.args.item, "id"))
       => /\ last'.err = INVALID_ITEM
          /\ last'.ev = <<>>
          /\ NothingChanged]_vars

\* the call the record l tells of, run in the world w
Rerun(w, l) ==
  CASE l.op = "add" -> add(w, l.args.item, l.args.now)
    [] l.op = "update" -> update(w, l.args.item)
    [] l.op = "touch" -> touch(w, l.args.item, l.args.now)
    [] l.op = "remove" -> remove(w, l.args.id)

\* C21: add and remove write the items table and the keystores table in
\* one transaction.  When the database fails a write (the first or the
\* second) or the commit of a call that would otherwise have written, the
\* call fails with that error and both tables are as before the call; and
\* after every add and remove the two tables are either both as before or
\* both as the call without failure leaves them.
C21_AtomicTables ==
  [][(last'.op \in {"add", "remove"})
       => LET sound == Rerun(World, last') IN
          /\ (last'.args.fault # NoFault /\ sound.err = NoError
              /\ <<sound.w.items, sound.w.keystores>> # <<dbItems, dbKeystores>>)
               => /\ last'.err = STORAGE_FAILURE
                  /\ dbItems' = dbItems
                  /\ dbKeystores' = dbKeystores
          /\ \/ dbItems' = dbItems /\ dbKeystores' = dbKeystores
             \/ dbItems' = sound.w.items /\ dbKeystores' = sound.w.keystores]_vars

\* C21 witness: the write to the keystores table, the second of add's
\* transaction, failed on a vault that stores an item: add failed and the
\* new item's record is not in the items table.
C21_Witness ==
  /\ last.op = "add" /\ last.args.fault = "keystores"
  /\ last.err = STORAGE_FAILURE
  /\ dbItems # EmptyMap /\ uuid \notin DOMAIN dbItems
  /\ uuid \notin DOMAIN dbKeystores.encrypted.keys

\* C24: when recordMetric throws or rejects in a call of add, update, touch
\* or remove, the call returns what it returns with a sink that resolves,
\* and the tables hold what that call wrote.
C24_SinkFailureIgnored ==
  [][(last'.op \in {"add", "update", "touch", "remove"}
      /\ last'.args.fault = NoFault /\ last'.args.sink # "resolves")
       => LET quiet == Rerun(World, last') IN
          /\ last'.err = quiet.err
          /\ last'.res = quiet.res
          /\ dbItems' = quiet.w.items
          /\ dbKeystores' = quiet.w.keystores]_vars

\* C26: in every state of the database, also one left by a failed write or
\* commit, the encrypted key map of the keystores record has a key for the
\* id of every record of the items table.
C26_KeyForEveryRecord ==
  \A id \in DOMAIN dbItems :
    dbKeystores # Null /\ id \in DOMAIN dbKeystores.encrypted.keys

\* The instance of world r reads what the last call, a mutation, wrote.
Reflects(r) ==
  /\ list(r).err = NoError
  /\ last.op \in {"add", "update"}
       => /\ last.res.id \in DOMAIN list(r).res
          /\ list(r).res[last.res.id] = last.res
          /\ get(r, last.res.id).err = NoError
          /\ get(r, last.res.id).res = last.res
  /\ (last.op = "remove" /\ last.res # Null)
       => /\ last.args.id \notin DOMAIN list(r).res
          /\ get(r, last.args.id).err = NoError
          /\ get(r, last.args.id).res = Null

\* C22: once an add, update or remove of one instance has committed, list
\* and get of another instance on the same bucket, unlocked with the same
\* master, succeed and show the mutation, whether that instance was prepared
\* and unlocked before the commit or is prepared and unlocked after it.
C22_ReaderSeesCommit ==
  (last.op \in {"add", "update", "remove"} /\ last.err = NoError)
    => /\ (Unlocked(OtherWorld) /\ other.keystore.masterKey = keystore.masterKey)
            => Reflects(OtherWorld)
       /\ LET fresh == unlock(prepare(constructor(World, Null)).w, FIXTURE_PASSWORD)
          IN fresh.err = NoError /\ Reflects(fresh.w)

\* C23: calls submitted to one vault without waiting leave the stored state,
\* the in-memory state and each call's result as running them one at a time
\* in the order of their submission would: when an add has settled, the
\* vault is the one the serial run produces and add's outcome is the serial
\* run's.
C23_SerialOrder ==
  pending.pc = "done"
    => /\ World = pending.serial
       /\ [err |-> pending.err, res |-> pending.res] = pending.expected

C27_UpdateKeepsKey ==
  [][(/\ last'.op = "update"
      /\ last'.args.item # Null
      /\ Has(last'.args.item, "id")
      /\ last'.args.item.id \in DOMAIN dbItems)
       => LET id == last'.args.item.id IN
          /\ keystore' = keystore
          /\ dbKeystores' = dbKeystores
          /\ DOMAIN dbItems' = DOMAIN dbItems
          /\ \A n \in DOMAIN dbItems \ {id} : dbItems'[n] = dbItems[n]
          /\ last'.err # NoError => dbItems' = dbItems
          /\ last'.err = NoError
               => /\ id \in DOMAIN keystore.keys
                  /\ dbItems'[id].encrypted.key = keystore.keys[id].k
                  /\ decrypt(keystore, id, dbItems'[id].encrypted)
                       = [item |-> last'.res, err |-> NoError]]_vars

\* update rewrote one of two stored items, changing it.
C27_Witness ==
  /\ last.op = "update" /\ last.err = NoError
  /\ Cardinality(DOMAIN dbItems) = 2
  /\ last.ev[1].fields # ""
  /\ dbItems[last.res.id].encrypted.pt = last.res

Unreadable(w) ==
  {id \in DOMAIN w.items : decrypt(w.keystore, id, w.items[id].encrypted).err # NoError}

\* C29: list() on an Unlocked vault either returns a map with an entry for
\* every record of the items table, each the decrypted item, or fails with
\* the error of a record's decryption and returns no map; a record that does
\* not decrypt is never left out of a returned map.
C29_ListAllOrError ==
  [][(last'.op = "list" /\ Unlocked(World))
       => IF Unreadable(World) = {}
            THEN /\ last'.err = NoError
                 /\ DOMAIN last'.res = DOMAIN dbItems
                 /\ \A id \in DOMAIN dbItems :
                      last'.res[id] = decrypt(keystore, id, dbItems[id].encrypted).item
            ELSE /\ last'.err \in {UNKNOWN_KEY, AUTH_TAG_MISMATCH}
                 /\ \E id \in Unreadable(World) :
                      last'.err = decrypt(keystore, id, dbItems[id].encrypted).err
                 /\ last'.res = Null]_vars

\* list failed on a vault one of whose two records decrypts and the other
\* does not.
C29_Witness ==
  /\ last.op = "list" /\ last.err = AUTH_TAG_MISMATCH
  /\ ~last.pre.locked
  /\ Cardinality(DOMAIN dbItems) = 2
  /\ Cardinality(Unreadable(World)) = 1

\* the ids whose record holds a ciphertext made for another id
Misplaced(items) == {id \in DOMAIN items : items[id].encrypted.aad # id}

\* C30: a ciphertext is accepted only under the id it was encrypted for.  On
\* an Unlocked vault get(id) of a record holding the ciphertext of another id
\* fails with the authentication-tag error, and so does list() while there
\* is such a record; what get(id) and list() return under an id is an item
\* of that id.
C30_CiphertextBoundToId ==
  [][Unlocked(World)
       => /\ (last'.op = "get" /\ last'.args.id \in DOMAIN dbItems)
               => IF last'.args.id \in Misplaced(dbItems)
                    THEN last'.err = AUTH_TAG_MISMATCH /\ last'.res = Null
                    ELSE last'.err = NoError /\ last'.res.id = last'.args.id
          /\ last'.op = "list"
               => IF Misplaced(dbItems) # {}
                    THEN last'.err = AUTH_TAG_MISMATCH /\ last'.res = Null
                    ELSE /\ last'.err = NoError
                         /\ \A id \in DOMAIN last'.res : last'.res[id].id = id]_vars

\* get failed on a record after it changed ciphertexts with the other one.
C30_Witness ==
  /\ last.op = "get" /\ last.err = AUTH_TAG_MISMATCH
  /\ ~last.pre.locked
  /\ \E a \in DOMAIN dbItems, b \in DOMAIN dbItems :
       /\ a # b
       /\ last.args.id = a
       /\ dbItems[a].encrypted.aad = b
       /\ dbItems[b].encrypted.aad = a

\* C31: prepare never fails and changes no table.  On an instance not yet
\* prepared whose bucket holds a keystores record it leaves the vault
\* initialized and locked, holding that record's key map still wrapped; on a
\* Fresh one whose bucket holds none it leaves the vault Fresh.  On a
\* prepared vault it does nothing: the keystore in memory stays, so an
\* Unlocked vault stays Unlocked with its item keys.
C31_PrepareLoadsOnce ==
  [][last'.op = "prepare"
       => /\ last'.err = NoError /\ last'.res = This /\ last'.ev = <<>>
          /\ ldb'
          /\ dbItems' = dbItems /\ dbKeystores' = dbKeystores /\ uuid' = uuid
          /\ IF ldb
               THEN /\ keystore' = keystore
                    /\ Unlocked(World) => Unlocked(World')
             ELSE IF dbKeystores # Null
               THEN /\ initialized(World') /\ locked(World')
                    /\ toJSON(keystore') = dbKeystores
                    /\ keystore'.keys = EmptyMap
             ELSE /\ Fresh(World) => Fresh(World')
                  /\ locked(World')]_vars

\* prepare of a new instance on a bucket that holds items and their keys
C31_Witness ==
  /\ last.op = "prepare" /\ ~last.pre.prepared
  /\ initialized(World) /\ locked(World) /\ ldb
  /\ dbItems # EmptyMap
  /\ dbKeystores # Null /\ DOMAIN dbKeystores.encrypted.keys = DOMAIN dbItems

\* C32: the keystore's load fails with "not encrypted" when it holds no
\* encrypted key map and with "invalid master key" when no master key is
\* given or held (with one or the other when both are missing); its save
\* fails with "invalid master key" when no master key is held.  A failed
\* load or save leaves the key map, the master key and the encrypted key map
\* as they were, so a save without master key leaves an absent encrypted key
\* map absent.
C32_LoadSaveFailures ==
  [][/\ last'.op = "load"
          => LET mk == IF last'.args.masterKey # Null THEN last'.args.masterKey
                       ELSE keystore.masterKey
             IN /\ (keystore.encrypted = Null /\ mk # Null)
                     => last'.err = NOT_ENCRYPTED
                /\ (keystore.encrypted # Null /\ mk = Null)
                     => last'.err = INVALID_MASTER_KEY
                /\ (keystore.encrypted = Null /\ mk = Null)
                     => last'.err \in {NOT_ENCRYPTED, INVALID_MASTER_KEY}
                /\ last'.err # NoError => keystore' = keystore
     /\ last'.op = "save"
          => /\ keystore.masterKey = Null <=> last'.err = INVALID_MASTER_KEY
             /\ last'.err \in {NoError, INVALID_MASTER_KEY}
             /\ last'.err # NoError => keystore' = keystore]_vars

\* load with a master key failed on a keystore that holds item keys and no
\* encrypted key map.
C32_Witness ==
  /\ last.op = "load" /\ last.err = NOT_ENCRYPTED
  /\ last.args.masterKey # Null
  /\ keystore.keys # EmptyMap
  /\ keystore.masterKey = Null
  /\ keystore.encrypted = Null

\* C33: when the transaction of remove(id) or of add fails, the keystore in
\* memory still fits the tables: after the failed remove, get(id) and list()
\* on the same unlocked vault succeed and return the item; after the failed
\* add the keystore in memory holds no key for the new id.
C33_FailedTransactionKeepsKeys ==
  [][(/\ last'.op \in {"add", "remove"}
      /\ Unlocked(World)
      /\ last'.err = STORAGE_FAILURE)
       => /\ Unlocked(World')
          /\ DOMAIN keystore'.keys = DOMAIN keystore.keys
          /\ last'.op = "remove"
               => /\ get(World', last'.args.id).err = NoError
                  /\ get(World', last'.args.id).res = get(World, last'.args.id).res
                  /\ list(World').err = NoError
                  /\ list(World').res = list(World).res
          /\ last'.op = "add" => uuid' \notin DOMAIN keystore'.keys]_vars

====
